---- MODULE Spec2Model ----
(***************************************************************************)
(* light-craft: a warp HTTP service over a SQLite table of model records.  *)
(*                                                                         *)
(* src/src/main.rs   main: new_model_store, then warp::serve               *)
(* src/src/model.rs  ModelStore (add_model, delete_model, get_models) and  *)
(*                   the three handlers, each a tokio task that takes the  *)
(*                   tokio::sync::RwLock around the store and then the     *)
(*                   std::sync::Mutex around the rusqlite Connection.      *)
(*                                                                         *)
(* Every handler is modelled as the sequence of its steps; a step that     *)
(* runs inside the connection mutex (one SQL statement, or prepare plus    *)
(* the row loop of get_models) is one action, because the Connection can   *)
(* only be reached through that mutex (model.rs:20).                       *)
(***************************************************************************)
EXTENDS Integers, Sequences, FiniteSets, TLC

\* ------------------------------------------------------------------ bounds

\* Number of connections (tokio tasks) that can have a request in flight.
NumTasks == 2

\* Requests the server accepts in one run.
MaxRequests == 3

\* Local::now().timestamp_millis() while the server runs: one reading, the run
\* being short against the clock's resolution.
ClockNow == 10

\* The reading under which an earlier run wrote its rows.
ClockEarlier == 9

Tasks == 1..NumTasks
NoTask == 0

\* ------------------------------------------------------------- text, JSON

\* A Rust String is a sequence of one-character strings.
DigitChars == <<"0", "1", "2", "3", "4", "5", "6", "7", "8", "9">>

\* Values Uuid::new_v4().to_string() can take (never the empty string).
Ids == {<<"u", "1">>, <<"u", "2">>}

\* Bodies of POST /model (CreateModelRequest).
Payloads ==
    { [name |-> <<"m", "1">>, version |-> <<"v", "1">>, data |-> <<"a", "b", "c">>],
      [name |-> <<"m", "2">>, version |-> <<"v", "2">>, data |-> <<"h", "i">>] }

\* i64::to_string: the decimal rendering of a non-negative integer.
RECURSIVE to_string(_)
to_string(n) ==
    IF n < 10 THEN <<DigitChars[n + 1]>>
    ELSE Append(to_string(n \div 10), DigitChars[(n % 10) + 1])

DigitValue(c) == CHOOSE d \in 0..9 : DigitChars[d + 1] = c

IsDigit(c) == \E d \in 0..9 : DigitChars[d + 1] = c

\* SQLite: a TEXT value is converted by INTEGER affinity when it is a
\* well-formed integer literal.
LooksLikeInteger(s) == Len(s) > 0 /\ \A i \in 1..Len(s) : IsDigit(s[i])

RECURSIVE ParseInteger(_)
ParseInteger(s) ==
    IF Len(s) = 0 THEN 0
    ELSE 10 * ParseInteger(SubSeq(s, 1, Len(s) - 1)) + DigitValue(s[Len(s)])

\* ------------------------------------------------------------ SQL values

SqlText(s) == [type |-> "TEXT", val |-> s]
SqlInteger(n) == [type |-> "INTEGER", val |-> n]

Columns == {"id", "name", "version", "data", "create_time"}

\* CREATE_MODEL_TABLE: the declared type of each column.
ColumnAffinity ==
    [id |-> "TEXT", name |-> "TEXT", version |-> "TEXT",
     data |-> "BLOB", create_time |-> "INTEGER"]

ApplyAffinity(aff, v) ==
    IF aff = "INTEGER" /\ v.type = "TEXT" /\ LooksLikeInteger(v.val)
    THEN SqlInteger(ParseInteger(v.val))
    ELSE v

\* add_model with :data bound to the version argument.
InsertParamsVersionAsData(id, name, version, data, now) ==
    [id |-> SqlText(id), name |-> SqlText(name), version |-> SqlText(version),
     data |-> SqlText(version), create_time |-> SqlText(to_string(now))]

\* The named parameters add_model binds: every one of them a &str.
InsertParams(id, name, version, data, now) ==
    [id |-> SqlText(id), name |-> SqlText(name), version |-> SqlText(version),
     data |-> SqlText(data), create_time |-> SqlText(to_string(now))]

RowIds(table) == {table[i].id : i \in 1..Len(table)}

\* A table whose id column is not a key.
NoPrimaryKey(table, row) == FALSE

\* id TEXT PRIMARY KEY: a row whose id is already in the table is refused.
PrimaryKeyConflict(table, row) == row.id \in RowIds(table)

\* INSERT OR REPLACE instead of INSERT: the row with the same id is replaced.
ExecuteInsertOrReplace(table, params) ==
    LET row == [c \in Columns |-> ApplyAffinity(ColumnAffinity[c], params[c])]
    IN  [res |-> "Ok",
         table |-> IF row.id \in RowIds(table)
                   THEN [i \in 1..Len(table) |->
                            IF table[i].id = row.id THEN row ELSE table[i]]
                   ELSE Append(table, row)]

\* INSERT_MODEL executed on the table: the result and the table afterwards.
ExecuteInsert(table, params) ==
    LET row == [c \in Columns |-> ApplyAffinity(ColumnAffinity[c], params[c])]
    IN  IF PrimaryKeyConflict(table, row)
        THEN [res |-> "Err", table |-> table]
        ELSE [res |-> "Ok", table |-> Append(table, row)]

RECURSIVE DeleteWhere(_, _)
DeleteWhere(table, idv) ==
    IF Len(table) = 0 THEN <<>>
    ELSE IF Head(table).id = idv
         THEN DeleteWhere(Tail(table), idv)
         ELSE <<Head(table)>> \o DeleteWhere(Tail(table), idv)

\* DELETE without its WHERE clause.
ExecuteDeleteAll(table, id) == <<>>

\* DELETE_BY_ID executed on the table with :id bound to the request's id.
ExecuteDelete(table, id) == DeleteWhere(table, SqlText(id))

\* row.get::<String>: only a TEXT value converts.
GetString(v) == [ok |-> v.type = "TEXT", val |-> v.val]

\* row.get::<i64>: only an INTEGER value converts.
GetI64(v) == [ok |-> v.type = "INTEGER", val |-> v.val]

\* The closure of query_map reading data from column 2 instead of column 3.
RowToModelShifted(row) ==
    LET id == GetString(row.id)
        name == GetString(row.name)
        version == GetString(row.version)
        data == GetString(row.version)
        create_time == GetI64(row.create_time)
    IN  [ok |-> id.ok /\ name.ok /\ version.ok /\ data.ok /\ create_time.ok,
         model |-> [id |-> id.val, name |-> name.val, version |-> version.val,
                    data |-> data.val, create_time |-> create_time.val]]

\* The closure of query_map: a Model from a row, or the first error.
RowToModel(row) ==
    LET id == GetString(row.id)
        name == GetString(row.name)
        version == GetString(row.version)
        data == GetString(row.data)
        create_time == GetI64(row.create_time)
    IN  [ok |-> id.ok /\ name.ok /\ version.ok /\ data.ok /\ create_time.ok,
         model |-> [id |-> id.val, name |-> name.val, version |-> version.val,
                    data |-> data.val, create_time |-> create_time.val]]

\* SELECT_ALL and the row loop: the models in scan order; model.unwrap()
\* panics on a row that does not convert.
get_models(table) ==
    IF \A i \in 1..Len(table) : RowToModel(table[i]).ok
    THEN [panic |-> FALSE, models |-> [i \in 1..Len(table) |-> RowToModel(table[i]).model]]
    ELSE [panic |-> TRUE, models |-> <<>>]

\* ------------------------------------------------------------------ state

VARIABLES
    phase,      \* main: "start", "serving" (warp::serve running), "exited"
    boot,       \* main: what Connection::open, CREATE TABLE and new_model_store returned
    db,         \* table models of data.db: the rows in scan order
    writer,     \* RwLock: the task holding the write guard, or NoTask
    readers,    \* RwLock: the tasks holding a read guard
    waiters,    \* RwLock: the tasks queued for a guard, first in first out
    conn_lock,  \* Mutex<Connection>: the task holding the guard, or NoTask
    poisoned,   \* Mutex<Connection>: a holder panicked
    accepted,   \* requests accepted so far
    pc,         \* per task: where its handler is
    req,        \* per task: the decoded request
    local,      \* per task: id and now of add_model, result of execute
    models,     \* per task: the Vec<Model> get_models returned
    resp        \* per task: the JSON body of the reply

vars == <<phase, boot, db, writer, readers, waiters, conn_lock, poisoned,
          accepted, pc, req, local, models, resp>>

NoReq == [kind |-> "none", name |-> <<>>, version |-> <<>>, data |-> <<>>, id |-> <<>>]
NoLocal == [id |-> <<>>, now |-> 0, res |-> "none"]

NotBooted == [open |-> "none", create |-> "none", store |-> "none"]

\* data.db as an earlier run of the program can have left it.
InitialTables ==
    { <<>>,
      ExecuteInsert(<<>>, InsertParams(<<"u", "1">>, <<"m", "1">>, <<"v", "1">>,
                                       <<"a", "b", "c">>, ClockEarlier)).table }

Init ==
    /\ phase = "start"
    /\ boot = NotBooted
    /\ db \in InitialTables
    /\ writer = NoTask
    /\ readers = {}
    /\ waiters = <<>>
    /\ conn_lock = NoTask
    /\ poisoned = FALSE
    /\ accepted = 0
    /\ pc = [t \in Tasks |-> "idle"]
    /\ req = [t \in Tasks |-> NoReq]
    /\ local = [t \in Tasks |-> NoLocal]
    /\ models = [t \in Tasks |-> <<>>]
    /\ resp = [t \in Tasks |-> "none"]

\* ------------------------------------------------------------------- main

\* new_model_store dropping the result of CREATE TABLE.
new_model_store_unchecked(open, create) == IF open = "Ok" THEN "Ok" ELSE "Err"

\* new_model_store: Ok only when both the open and the CREATE TABLE succeed.
new_model_store(open, create) ==
    IF open = "Ok" THEN (IF create = "Ok" THEN "Ok" ELSE "Err") ELSE "Err"

\* main's match: serve on Ok, fall off the end of main on Err.
MainMatch(store) == IF store = "Ok" THEN "serving" ELSE "exited"

Main ==
    /\ phase = "start"
    /\ \E open \in {"Ok", "Err"}, create \in {"Ok", "Err", "skipped"} :
          \* conn.execute(CREATE_MODEL_TABLE) runs only on an open connection
          /\ (create = "skipped") <=> (open = "Err")
          /\ boot' = [open |-> open, create |-> create,
                      store |-> new_model_store(open, create)]
          /\ phase' = MainMatch(new_model_store(open, create))
    /\ UNCHANGED <<db, writer, readers, waiters, conn_lock, poisoned,
                   accepted, pc, req, local, models, resp>>

\* ----------------------------------------------------------------- RwLock

\* A write guard granted while read guards are out.
CanWriteBesideReaders(t) ==
    /\ Len(waiters) > 0 /\ Head(waiters) = t
    /\ writer = NoTask

\* A read guard granted while the write guard is out.
CanReadBesideWriter(t) == Len(waiters) > 0 /\ Head(waiters) = t

\* A write guard that is never given back.
WriterKept(t) == writer

\* tokio::sync::RwLock is fair: guards are granted in the order asked.
CanWrite(t) ==
    /\ Len(waiters) > 0 /\ Head(waiters) = t
    /\ writer = NoTask
    /\ readers = {}

CanRead(t) ==
    /\ Len(waiters) > 0 /\ Head(waiters) = t
    /\ writer = NoTask

\* Dropping the write guard.
WriterAfterDrop(t) == IF writer = t THEN NoTask ELSE writer

\* Dropping a read guard.
ReadersAfterDrop(t) == readers \ {t}

\* ------------------------------------------------------------------ Mutex

\* std::sync::Mutex::lock returns once no other thread holds the guard.
CanLockConn(t) == conn_lock = NoTask

\* Dropping the MutexGuard at the end of the store method.
ConnAfterUnlock(t) == IF conn_lock = t THEN NoTask ELSE conn_lock

\* --------------------------------------------------------------- requests

Accepting == phase = "serving" /\ accepted < MaxRequests

\* A connection carries one request at a time: the next one is read after the
\* reply to the last one was written.  The handler's request, locals and
\* result are dropped when it returns; the reply body stays with the client.
Ready(t) == pc[t] \in {"idle", "done"}

\* POST /model reaches create_model_handler, which asks for the write guard.
CreateRequest(t, p) ==
    /\ Accepting
    /\ Ready(t)
    /\ accepted' = accepted + 1
    /\ req' = [req EXCEPT ![t] = [kind |-> "create", name |-> p.name,
                                  version |-> p.version, data |-> p.data, id |-> <<>>]]
    /\ waiters' = Append(waiters, t)
    /\ pc' = [pc EXCEPT ![t] = "create_await"]
    /\ local' = [local EXCEPT ![t] = NoLocal]
    /\ models' = [models EXCEPT ![t] = <<>>]
    /\ resp' = [resp EXCEPT ![t] = "none"]
    /\ UNCHANGED <<phase, boot, db, writer, readers, conn_lock, poisoned>>

\* GET /model reaches get_model_handler, which asks for a read guard.
ListRequest(t) ==
    /\ Accepting
    /\ Ready(t)
    /\ accepted' = accepted + 1
    /\ req' = [req EXCEPT ![t] = [NoReq EXCEPT !.kind = "list"]]
    /\ waiters' = Append(waiters, t)
    /\ pc' = [pc EXCEPT ![t] = "list_await"]
    /\ local' = [local EXCEPT ![t] = NoLocal]
    /\ models' = [models EXCEPT ![t] = <<>>]
    /\ resp' = [resp EXCEPT ![t] = "none"]
    /\ UNCHANGED <<phase, boot, db, writer, readers, conn_lock, poisoned>>

\* DELETE /model reaches delete_model_handler, which asks for the write guard.
DeleteRequest(t, id) ==
    /\ Accepting
    /\ Ready(t)
    /\ accepted' = accepted + 1
    /\ req' = [req EXCEPT ![t] = [NoReq EXCEPT !.kind = "delete", !.id = id]]
    /\ waiters' = Append(waiters, t)
    /\ pc' = [pc EXCEPT ![t] = "delete_await"]
    /\ local' = [local EXCEPT ![t] = NoLocal]
    /\ models' = [models EXCEPT ![t] = <<>>]
    /\ resp' = [resp EXCEPT ![t] = "none"]
    /\ UNCHANGED <<phase, boot, db, writer, readers, conn_lock, poisoned>>

\* ------------------------------------------------------------------ panic

\* A handler that panics unwinds: its guards are dropped and no reply is sent.
Panicked(t) ==
    /\ pc' = [pc EXCEPT ![t] = "panicked"]
    /\ writer' = WriterAfterDrop(t)
    /\ readers' = ReadersAfterDrop(t)
    /\ conn_lock' = ConnAfterUnlock(t)

\* --------------------------------------------------- create_model_handler

\* model_store.write().await returns the write guard.
CreateWriteGranted(t) ==
    /\ pc[t] = "create_await"
    /\ CanWrite(t)
    /\ writer' = t
    /\ waiters' = Tail(waiters)
    /\ pc' = [pc EXCEPT ![t] = "add_lock"]
    /\ UNCHANGED <<phase, boot, db, readers, conn_lock, poisoned, accepted,
                   req, local, models, resp>>

\* add_model: Uuid::new_v4(), Local::now(), self.conn.lock().unwrap().
AddModelLock(t) ==
    /\ pc[t] = "add_lock"
    /\ CanLockConn(t)
    /\ IF poisoned
       THEN /\ Panicked(t)
            /\ UNCHANGED local
       ELSE /\ \E id \in Ids :
                  local' = [local EXCEPT ![t] = [id |-> id, now |-> ClockNow, res |-> "none"]]
            /\ conn_lock' = t
            /\ pc' = [pc EXCEPT ![t] = "add_exec"]
            /\ UNCHANGED <<writer, readers>>
    /\ UNCHANGED <<phase, boot, db, waiters, poisoned, accepted, req, models, resp>>

\* What conn.execute(INSERT_MODEL, ...) does when the storage layer answers
\* `storage`: a failing storage layer leaves the table as it was.
InsertOutcome(table, storage, id, r, now) ==
    IF storage = "Err"
    THEN [res |-> "Err", table |-> table]
    ELSE ExecuteInsert(table, InsertParams(id, r.name, r.version, r.data, now))

\* add_model: conn.execute, the match that only prints, and the guard's drop.
AddModelExecute(t) ==
    /\ pc[t] = "add_exec"
    /\ \E storage \in {"Ok", "Err"} :
          LET out == InsertOutcome(db, storage, local[t].id, req[t], local[t].now)
          IN  /\ db' = out.table
              /\ local' = [local EXCEPT ![t].res = out.res]
    /\ conn_lock' = ConnAfterUnlock(t)
    /\ pc' = [pc EXCEPT ![t] = "create_reply"]
    /\ UNCHANGED <<phase, boot, writer, readers, waiters, poisoned, accepted,
                   req, models, resp>>

\* A handler that reports the failure of the insert.
CreateResponseSurfacing(res) == IF res = "Err" THEN "create failed" ELSE "create success"

\* Ok(warp::reply::json(&"create success")): the result of execute is not read.
CreateResponse(res) == "create success"

CreateReply(t) ==
    /\ pc[t] = "create_reply"
    /\ resp' = [resp EXCEPT ![t] = CreateResponse(local[t].res)]
    /\ writer' = WriterAfterDrop(t)
    /\ pc' = [pc EXCEPT ![t] = "done"]
    /\ req' = [req EXCEPT ![t] = NoReq]
    /\ local' = [local EXCEPT ![t] = NoLocal]
    /\ models' = [models EXCEPT ![t] = <<>>]
    /\ UNCHANGED <<phase, boot, db, readers, waiters, conn_lock, poisoned,
                   accepted>>

\* ------------------------------------------------------ get_model_handler

\* model_store.read().await returns a read guard.
ListReadGranted(t) ==
    /\ pc[t] = "list_await"
    /\ CanRead(t)
    /\ readers' = readers \cup {t}
    /\ waiters' = Tail(waiters)
    /\ pc' = [pc EXCEPT ![t] = "get_lock"]
    /\ UNCHANGED <<phase, boot, db, writer, conn_lock, poisoned, accepted,
                   req, local, models, resp>>

\* get_models: self.conn.lock().unwrap().
GetModelsLock(t) ==
    /\ pc[t] = "get_lock"
    /\ CanLockConn(t)
    /\ IF poisoned
       THEN Panicked(t)
       ELSE /\ conn_lock' = t
            /\ pc' = [pc EXCEPT ![t] = "get_query"]
            /\ UNCHANGED <<writer, readers>>
    /\ UNCHANGED <<phase, boot, db, waiters, poisoned, accepted, req, local,
                   models, resp>>

\* get_models: prepare, query_map, the row loop, and the guard's drop.
GetModelsQuery(t) ==
    /\ pc[t] = "get_query"
    /\ LET out == get_models(db)
       IN  IF out.panic
           THEN /\ Panicked(t)
                /\ poisoned' = TRUE
                /\ UNCHANGED models
           ELSE /\ models' = [models EXCEPT ![t] = out.models]
                /\ conn_lock' = ConnAfterUnlock(t)
                /\ pc' = [pc EXCEPT ![t] = "list_reply"]
                /\ UNCHANGED <<writer, readers, poisoned>>
    /\ UNCHANGED <<phase, boot, db, waiters, accepted, req, local, resp>>

\* Ok(warp::reply::json(&store.get_models())), then the read guard's drop.
ListReply(t) ==
    /\ pc[t] = "list_reply"
    /\ resp' = [resp EXCEPT ![t] = "models"]
    /\ readers' = ReadersAfterDrop(t)
    /\ pc' = [pc EXCEPT ![t] = "done"]
    /\ req' = [req EXCEPT ![t] = NoReq]
    /\ local' = [local EXCEPT ![t] = NoLocal]
    /\ models' = [models EXCEPT ![t] = <<>>]
    /\ UNCHANGED <<phase, boot, db, writer, waiters, conn_lock, poisoned,
                   accepted>>

\* --------------------------------------------------- delete_model_handler

DeleteWriteGranted(t) ==
    /\ pc[t] = "delete_await"
    /\ CanWrite(t)
    /\ writer' = t
    /\ waiters' = Tail(waiters)
    /\ pc' = [pc EXCEPT ![t] = "del_lock"]
    /\ UNCHANGED <<phase, boot, db, readers, conn_lock, poisoned, accepted,
                   req, local, models, resp>>

\* delete_model: self.conn.lock().unwrap().
DeleteModelLock(t) ==
    /\ pc[t] = "del_lock"
    /\ CanLockConn(t)
    /\ IF poisoned
       THEN Panicked(t)
       ELSE /\ conn_lock' = t
            /\ pc' = [pc EXCEPT ![t] = "del_exec"]
            /\ UNCHANGED <<writer, readers>>
    /\ UNCHANGED <<phase, boot, db, waiters, poisoned, accepted, req, local,
                   models, resp>>

\* What conn.execute(DELETE_BY_ID, ...) does when the storage layer answers
\* `storage`.
DeleteOutcome(table, storage, id) ==
    IF storage = "Err"
    THEN [res |-> "Err", table |-> table]
    ELSE [res |-> "Ok", table |-> ExecuteDelete(table, id)]

\* delete_model: conn.execute, the match that only prints, the guard's drop.
DeleteModelExecute(t) ==
    /\ pc[t] = "del_exec"
    /\ \E storage \in {"Ok", "Err"} :
          LET out == DeleteOutcome(db, storage, req[t].id)
          IN  /\ db' = out.table
              /\ local' = [local EXCEPT ![t].res = out.res]
    /\ conn_lock' = ConnAfterUnlock(t)
    /\ pc' = [pc EXCEPT ![t] = "delete_reply"]
    /\ UNCHANGED <<phase, boot, writer, readers, waiters, poisoned, accepted,
                   req, models, resp>>

\* Ok(warp::reply::json(&"delete success")): the result of execute is not read.
DeleteResponse(res) == "delete success"

DeleteReply(t) ==
    /\ pc[t] = "delete_reply"
    /\ resp' = [resp EXCEPT ![t] = DeleteResponse(local[t].res)]
    /\ writer' = WriterAfterDrop(t)
    /\ pc' = [pc EXCEPT ![t] = "done"]
    /\ req' = [req EXCEPT ![t] = NoReq]
    /\ local' = [local EXCEPT ![t] = NoLocal]
    /\ models' = [models EXCEPT ![t] = <<>>]
    /\ UNCHANGED <<phase, boot, db, readers, waiters, conn_lock, poisoned,
                   accepted>>

\* --------------------------------------------------------- specifications

CreateStep(t) ==
    CreateWriteGranted(t) \/ AddModelLock(t) \/ AddModelExecute(t) \/ CreateReply(t)

ListStep(t) ==
    ListReadGranted(t) \/ GetModelsLock(t) \/ GetModelsQuery(t) \/ ListReply(t)

DeleteStep(t) ==
    DeleteWriteGranted(t) \/ DeleteModelLock(t) \/ DeleteModelExecute(t) \/ DeleteReply(t)

Next ==
    \/ Main
    \/ \E t \in Tasks, p \in Payloads : CreateRequest(t, p)
    \/ \E t \in Tasks : ListRequest(t)
    \/ \E t \in Tasks, id \in Ids : DeleteRequest(t, id)
    \/ \E t \in Tasks : CreateStep(t)
    \/ \E t \in Tasks : ListStep(t)
    \/ \E t \in Tasks : DeleteStep(t)

Spec == Init /\ [][Next]_vars

\* The tokio runtime polls every task that can make progress, and a thread
\* inside a store method runs to the method's end: each handler's steps are
\* weakly fair.  Requests arrive or do not.
HandlerStep(t) == CreateStep(t) \/ ListStep(t) \/ DeleteStep(t)

FairSpec == Spec /\ \A t \in Tasks : WF_vars(HandlerStep(t))

\* The server under a load of POST and GET requests only.
NextNoDelete ==
    \/ Main
    \/ \E t \in Tasks, p \in Payloads : CreateRequest(t, p)
    \/ \E t \in Tasks : ListRequest(t)
    \/ \E t \in Tasks : CreateStep(t)
    \/ \E t \in Tasks : ListStep(t)

SpecNoDelete == Init /\ [][NextNoDelete]_vars

\* ------------------------------------------------------------- properties

InsertRuns(t) == pc[t] = "add_exec" /\ pc'[t] = "create_reply"
InsertSucceeds(t) == InsertRuns(t) /\ local'[t].res = "Ok"
InsertFails(t) == InsertRuns(t) /\ local'[t].res = "Err"

DeleteRuns(t) == pc[t] = "del_exec" /\ pc'[t] = "delete_reply"
DeleteSucceeds(t) == DeleteRuns(t) /\ local'[t].res = "Ok"
DeleteFails(t) == DeleteRuns(t) /\ local'[t].res = "Err"

\* The list a GET served from `table` returns.
Listed(table) == get_models(table).models

RemovedExactly(t) ==
    LET idv == SqlText(req[t].id)
        keep == {i \in 1..Len(db) : db[i].id # idv}
    IN  /\ Len(db') = Cardinality(keep)
        /\ \A i \in keep : \E j \in 1..Len(db') : db'[j] = db[i]
        /\ \A j \in 1..Len(db') : db'[j].id # idv
        /\ (keep = 1..Len(db)) => (db' = db)

DeleteAnswered(t) ==
    (pc[t] = "delete_reply" /\ pc'[t] # "delete_reply")
        => (pc'[t] = "done" /\ resp'[t] = "delete success")

\* C2 as claimed: every delete removes exactly the record with the id, leaves
\* the others, changes nothing when the id is absent, and is answered with
\* the success response.
C2_EveryDeleteRemoves ==
    [][\A t \in Tasks : (DeleteRuns(t) => RemovedExactly(t)) /\ DeleteAnswered(t)]_vars

\* C2: a delete whose DELETE statement succeeds removes exactly the record
\* with the id and leaves the others (nothing when the id is absent); a delete
\* whose statement fails leaves the table as it was; every delete is answered
\* with the success response.
C2_SuccessfulDeleteRemoves ==
    [][\A t \in Tasks :
          /\ DeleteSucceeds(t) => RemovedExactly(t)
          /\ DeleteFails(t) => db' = db
          /\ DeleteAnswered(t)]_vars

\* A delete has removed its id from a store that still holds another record.
C2_Witness ==
    \E t \in Tasks :
        /\ pc[t] = "delete_reply" /\ local[t].res = "Ok"
        /\ SqlText(req[t].id) \notin RowIds(db)
        /\ Len(db) >= 1

\* The step adds one row, after the rows there were, that carries the
\* payload of t under an id no row had.
CreateAdded(t) ==
    /\ Len(db') = Len(db) + 1
    /\ LET row == db'[Len(db')]
       IN  /\ row.id = SqlText(local[t].id)
           /\ row.name = SqlText(req[t].name)
           /\ row.version = SqlText(req[t].version)
           /\ row.data = SqlText(req[t].data)
           /\ row.id \notin RowIds(db)

\* Every row of the table is still there, as it was.
RowsKept == Len(db') >= Len(db) /\ \A i \in 1..Len(db) : db'[i] = db[i]

\* C3 as claimed: with creates and no deletes, every create that goes on to
\* respond has added its own record under a new id, and no step loses or
\* overwrites a record.
C3_EveryCreateAdds ==
    [][RowsKept /\ \A t \in Tasks : InsertRuns(t) => CreateAdded(t)]_vars

\* C3: with creates and no deletes, every create whose insert succeeds has
\* added its own record under an id no other record has, a create whose
\* insert fails adds nothing, and no step loses or overwrites a record: after
\* N successful creates the store holds N new records with distinct ids.
C3_SuccessfulCreateAdds ==
    [][/\ RowsKept
       /\ \A t \in Tasks :
             /\ InsertSucceeds(t) => CreateAdded(t)
             /\ InsertFails(t) => db' = db]_vars

\* Two creates with distinct payloads in flight: one has inserted, the other
\* waits for the write guard.
C3_Witness ==
    \E t, u \in Tasks :
        /\ pc[t] = "create_reply" /\ local[t].res = "Ok"
        /\ pc[u] = "create_await"
        /\ req[u].name # req[t].name

\* The records a completed insert can have written.
CompleteModels ==
    { [id |-> i, name |-> p.name, version |-> p.version, data |-> p.data,
       create_time |-> c] : i \in Ids, p \in Payloads, c \in {ClockNow, ClockEarlier} }

StoreWriters == {t \in Tasks : pc[t] \in {"add_lock", "add_exec", "del_lock", "del_exec"}}
StoreReaders == {t \in Tasks : pc[t] \in {"get_lock", "get_query"}}

\* C5: the handlers running a store operation are at most one writer and no
\* reader, or readers only.
C5_OneWriterOrReaders ==
    /\ Cardinality(StoreWriters) <= 1
    /\ StoreWriters # {} => StoreReaders = {}

\* Two lists run get_models at once.
C5_Witness == Cardinality(StoreReaders) = 2

\* C6: a failed insert or delete leaves the table as it was, the store method
\* returns, and the handler answers with the success response.
C6_FailureSwallowed ==
    [][\A t \in Tasks :
          /\ InsertFails(t) => db' = db
          /\ DeleteFails(t) => db' = db
          /\ (pc[t] = "add_exec" /\ pc'[t] # "add_exec") => pc'[t] = "create_reply"
          /\ (pc[t] = "del_exec" /\ pc'[t] # "del_exec") => pc'[t] = "delete_reply"
          /\ (pc[t] = "create_reply" /\ pc'[t] # "create_reply")
                => (pc'[t] = "done" /\ resp'[t] = "create success")
          /\ DeleteAnswered(t)]_vars

\* A create whose insert failed has been answered.
C6_Witness ==
    \E t \in Tasks : pc[t] = "create_reply" /\ local[t].res = "Err" /\ Len(db) >= 1

UniqueIds == \A i, j \in 1..Len(db) : db[i].id = db[j].id => i = j

RecordsImmutable ==
    \A i \in 1..Len(db), j \in 1..Len(db') : db[i].id = db'[j].id => db[i] = db'[j]

\* C7: the store holds at most one record per id, and a record present before
\* and after a step is the same record.
C7_UniqueAndImmutable == []UniqueIds /\ [][RecordsImmutable]_vars

\* The store holds two records after creates and deletes were served.
C7_Witness == Len(db) = 2 /\ accepted = MaxRequests

\* C8: when the open or the CREATE TABLE fails, new_model_store returns Err,
\* the process ends, and no request is ever accepted or answered.
C8_InitFailureNeverServes ==
    (boot.open = "Err" \/ boot.create = "Err") =>
        /\ boot.store = "Err"
        /\ phase = "exited"
        /\ accepted = 0
        /\ \A t \in Tasks : pc[t] = "idle" /\ resp[t] = "none"

\* The CREATE TABLE failed on an open connection and the process has ended.
C8_Witness == boot.open = "Ok" /\ boot.create = "Err" /\ phase = "exited"

\* C9 as claimed: whoever holds a guard of the RwLock and asks for the
\* connection mutex finds it free.
C9_MutexNeverContended ==
    \A t \in Tasks : pc[t] \in {"add_lock", "del_lock", "get_lock"} => conn_lock = NoTask

\* C9: a create or delete that holds the write guard and asks for the
\* connection mutex finds it free (a list can find it held by another list).
C9_MutexFreeForWriters ==
    \A t \in Tasks : pc[t] \in {"add_lock", "del_lock"} => conn_lock = NoTask

\* A create holds the write guard and is about to take the mutex, with a list
\* queued behind it.
C9_Witness ==
    \E t, u \in Tasks :
        /\ pc[t] = "add_lock"
        /\ pc[u] = "list_await"

====
